---- MODULE Spec2Model ----
(***************************************************************************)
(* A model of the fat-ptr crate (src/src/lib.rs) and of its matrix example *)
(* (src/examples/matrix.rs): the half-word integer Halfsize, the packed    *)
(* Pair<Halfsize> metadata, the Fat wide reference, and the Matrix / Mat   *)
(* pair built on them.                                                     *)
(*                                                                         *)
(* The target modelled is the one of matrix.rs line 10:                    *)
(* target_pointer_width = "16", so usize is 16 bits wide and Halfsize is   *)
(* a u8.  Both byte orders are modelled, and so are both settings of        *)
(* overflow-checks (the debug and release profiles): a call whose usize    *)
(* arithmetic overflows has the outcomes of either build.                  *)
(***************************************************************************)
EXTENDS Integers, Sequences, FiniteSets, TLC

VARIABLES
    endian,           \* byte order of the target: "little" or "big"
    heap,             \* address |-> the elements of the buffer allocated there
    matrix,           \* Option<Matrix<T>>: the `matrix` of main()
    matrix2,          \* Option<Matrix<T>>: the `matrix2` of main()
    mat,              \* Option<&Mat<T>> / Option<&mut Mat<T>>: the live borrow
    result,           \* what the last call returned, or how it failed
    requested,        \* history: the (rows, cols) `matrix` was constructed with
    assigned,         \* history: [i, j] |-> value last stored into `matrix`
    arg               \* the (Halfsize, Halfsize) argument of the arithmetic calls

vars == <<endian, heap, matrix, matrix2, mat, result, requested, assigned, arg>>

----------------------------------------------------------------------------
(* Integer widths *)

\* Bits of a Halfsize (u8 when target_pointer_width = "16").
HalfBits == 8

RECURSIVE Pow2(_)
Pow2(n) == IF n = 0 THEN 1 ELSE 2 * Pow2(n - 1)

\* Number of values of a Halfsize, and its largest value.
HalfMod == Pow2(HalfBits)
HalfMax == HalfMod - 1

\* Number of values of a usize (twice the bits of a Halfsize), and usize::MAX.
UsizeMod == HalfMod * HalfMod
UsizeMax == UsizeMod - 1

Halfsize == 0 .. HalfMax
Usize == 0 .. UsizeMax

Endians == {"little", "big"}

\* Option<T>.
None == <<>>
Some(x) == <<x>>
Unwrap(o) == o[1]

----------------------------------------------------------------------------
(* Halfsize *)

\* impl From<Halfsize> for usize: the widening conversion.  The Err arm is
\* unreachable_unchecked(); `unreachable` records that it would be taken.
HalfsizeToUsize(h) ==
    IF h <= UsizeMax
        THEN [unreachable |-> FALSE, val |-> h]
        ELSE [unreachable |-> TRUE, val |-> 0]

\* impl TryFrom<usize> for Halfsize: the narrowing conversion.
HalfsizeTryFrom(val) ==
    IF val <= HalfMax
        THEN [ok |-> TRUE, val |-> val]
        ELSE [ok |-> FALSE, val |-> 0]

\* usize::checked_mul.
BadCheckedMul(x, y) ==
    IF x * y <= HalfMax
        THEN [some |-> TRUE, val |-> x * y]
        ELSE [some |-> FALSE, val |-> 0]

CheckedMul(x, y) ==
    IF y = 0 \/ x <= UsizeMax \div y
        THEN [some |-> TRUE, val |-> x * y]
        ELSE [some |-> FALSE, val |-> 0]

\* impl Mul for Halfsize: the set of outcomes of self * rhs.  The None arm is
\* unreachable_unchecked(): reaching it is undefined behaviour, so any usize
\* may come out of it.
HalfsizeMul(a, b) ==
    LET r == CheckedMul(HalfsizeToUsize(a).val, HalfsizeToUsize(b).val)
    IN  IF r.some
            THEN {[unreachable |-> FALSE, val |-> r.val]}
            ELSE {[unreachable |-> TRUE, val |-> v] : v \in Usize}

----------------------------------------------------------------------------
(* Pair<Halfsize> as fat-pointer metadata *)

\* usize::from_ne_bytes on the two bytes of a 16-bit word.
UsizeFromNeBytes(bytes, e) ==
    IF e = "little"
        THEN bytes[1] + HalfMod * bytes[2]
        ELSE HalfMod * bytes[1] + bytes[2]

\* usize::to_ne_bytes: the two bytes of a 16-bit word in memory order.
UsizeToNeBytes(word, e) ==
    IF e = "little"
        THEN <<word % HalfMod, word \div HalfMod>>
        ELSE <<word \div HalfMod, word % HalfMod>>

\* #[repr(C)] struct Pair<T>(T, T): field 0 at offset 0, field 1 after it.
PairLayout(p) == <<p[1], p[2]>>

\* Meta::into_bytes for Pair<Halfsize>: transmute of the pair's bytes to usize.
BadPairIntoBytes(p, e) == p[1] + p[2]

PairIntoBytes(p, e) == UsizeFromNeBytes(PairLayout(p), e)

\* Meta::from_bytes for Pair<Halfsize>: transmute of the usize's bytes to a pair.
PairFromBytes(word, e) ==
    LET bytes == UsizeToNeBytes(word, e)
    IN  <<bytes[1], bytes[2]>>

----------------------------------------------------------------------------
(* Memory *)

\* The addresses a buffer can be allocated at.
Addrs == 1 .. 2

\* The values of the element type T: T::default() and the values main() stores.
Default == 0
Stored == {1, 4}
Elem == {Default} \cup Stored

\* The allocator: the lowest address that holds no buffer.
Alloc(h) == CHOOSE a \in Addrs : h[a] = None /\ \A b \in Addrs : h[b] = None => a <= b

BadPtrRead(h, ptr, off) ==
    IF h[ptr] # None /\ 0 < Len(Unwrap(h[ptr]))
        THEN {[ub |-> FALSE, val |-> Unwrap(h[ptr])[1]]}
        ELSE {[ub |-> TRUE, val |-> v] : v \in Elem}

\* *ptr.add(off) as a read: the outcomes.  Outside the allocation it is
\* undefined behaviour and any value may be read.
PtrRead(h, ptr, off) ==
    IF h[ptr] # None /\ off < Len(Unwrap(h[ptr]))
        THEN {[ub |-> FALSE, val |-> Unwrap(h[ptr])[off + 1]]}
        ELSE {[ub |-> TRUE, val |-> v] : v \in Elem}

\* *ptr.add(off) = v: the heaps that can result.  Outside the allocation it is
\* undefined behaviour: the store lands in some slot of some buffer, or in none.
PtrWrite(h, ptr, off, v) ==
    IF h[ptr] # None /\ off < Len(Unwrap(h[ptr]))
        THEN {[ub |-> FALSE,
               heap |-> [h EXCEPT ![ptr] = Some([Unwrap(h[ptr]) EXCEPT ![off + 1] = v])]]}
        ELSE {[ub |-> TRUE, heap |-> h]} \cup
             {[ub |-> TRUE,
               heap |-> [h EXCEPT ![a] = Some([Unwrap(h[a]) EXCEPT ![k] = v])]] :
                  <<a, k>> \in {<<b, n>> \in Addrs \X (1 .. UsizeMax) :
                                   h[b] # None /\ n <= Len(Unwrap(h[b]))}}

\* slice::from_raw_parts(ptr, n) followed by to_vec(): the element sequences
\* the copy can hold.  Reading past the allocation is undefined behaviour.
CopyFromRaw(h, ptr, n) ==
    IF n = 0
        THEN {[ub |-> FALSE, elems |-> <<>>]}
        ELSE IF h[ptr] # None /\ n <= Len(Unwrap(h[ptr]))
            THEN {[ub |-> FALSE, elems |-> SubSeq(Unwrap(h[ptr]), 1, n)]}
            ELSE {[ub |-> TRUE, elems |-> [k \in 1 .. n |-> v]] : v \in Elem}

----------------------------------------------------------------------------
(* usize arithmetic of the build: panics on overflow with overflow-checks, *)
(* wraps without                                                           *)

\* x * y on usizes.  The product is formed from the low and high halves of x
\* so that no intermediate value exceeds 2^31.
MulOverflows(x, y) == y # 0 /\ x > UsizeMax \div y
WrappingMul(x, y) ==
    ((x % HalfMod) * y + (((x \div HalfMod) * y) % HalfMod) * HalfMod) % UsizeMod

BadUsizeMul(x, y) == [overflow |-> FALSE, val |-> (x + y) % UsizeMod]

UsizeMul(x, y) == [overflow |-> MulOverflows(x, y), val |-> WrappingMul(x, y)]
UsizeAdd(x, y) == [overflow |-> x + y > UsizeMax, val |-> (x + y) % UsizeMod]

----------------------------------------------------------------------------
(* Fat<T, M> with M = Pair<Halfsize>: a &[()] whose length word is the      *)
(* metadata                                                                *)

\* Fat::from_slice: the unit slice at data's address, of length meta.into_bytes().
BadFatFromSlice(data, meta, e) == [ptr |-> data.ptr, len |-> data.len]

FatFromSlice(data, meta, e) == [ptr |-> data.ptr, len |-> PairIntoBytes(meta, e)]

\* Fat::from_slice_mut.
FatFromSliceMut(data, meta, e) == [ptr |-> data.ptr, len |-> PairIntoBytes(meta, e)]

\* Fat::ptr and Fat::mut_ptr.
FatPtr(fat) == fat.ptr
FatMutPtr(fat) == fat.ptr

\* Fat::meta.
FatMeta(fat, e) == PairFromBytes(fat.len, e)

----------------------------------------------------------------------------
(* Matrix<T> and Mat<T> *)

\* &self.items[..]: the slice over a Vec.
AsSlice(vec) == [ptr |-> vec.ptr, len |-> vec.len]

\* Matrix::rows, Matrix::cols.
MatrixRows(m) == HalfsizeToUsize(m.rows).val
MatrixCols(m) == HalfsizeToUsize(m.cols).val

\* Mat::rows, Mat::cols, Mat::dim.
MatRows(fat, e) == HalfsizeToUsize(FatMeta(fat, e)[1]).val
BadMatCols(fat, e) == HalfsizeToUsize(FatMeta(fat, e)[1]).val

MatCols(fat, e) == HalfsizeToUsize(FatMeta(fat, e)[2]).val
MatDim(fat, e) ==
    LET p == FatMeta(fat, e)
    IN  <<HalfsizeToUsize(p[1]).val, HalfsizeToUsize(p[2]).val>>

\* Deref and DerefMut for Matrix.
MatrixDeref(m, e) == FatFromSlice(AsSlice(m.items), <<m.rows, m.cols>>, e)
MatrixDerefMut(m, e) == FatFromSliceMut(AsSlice(m.items), <<m.rows, m.cols>>, e)

\* The linear offset `i * cols + j` of index and index_mut.
BadLinearOffset(i, j, rows, cols) == UsizeAdd(UsizeMul(i, rows).val, j)

LinearOffset(i, j, rows, cols) ==
    LET prod == UsizeMul(i, cols)
        sum == UsizeAdd(prod.val, j)
    IN  [overflow |-> prod.overflow \/ sum.overflow, val |-> sum.val]

\* The two assertions of index and index_mut.
BadInBounds(i, j, rows, cols) == i < rows

InBounds(i, j, rows, cols) == i < rows /\ j < cols

\* Index and IndexMut for Mat up to the dereference: the assertions, then the
\* offset.  An overflowing offset panics in a build with overflow-checks and
\* wraps in one without.
MatLocate(fat, i, j, e) ==
    LET d == MatDim(fat, e)
        o == LinearOffset(i, j, d[1], d[2])
    IN  IF ~InBounds(i, j, d[1], d[2])
            THEN {[outcome |-> "bounds_error", overflow |-> FALSE, offset |-> 0]}
            ELSE IF o.overflow
                THEN {[outcome |-> "overflow_panic", overflow |-> TRUE, offset |-> 0],
                      [outcome |-> "ok", overflow |-> TRUE, offset |-> o.val]}
                ELSE {[outcome |-> "ok", overflow |-> FALSE, offset |-> o.val]}

\* Index for Mat: the outcomes of `&mat[[i, j]]`.  `touched` is the set of
\* element offsets the call dereferences.
MatIndex(h, fat, i, j, e) ==
    UNION {IF loc.outcome # "ok"
              THEN {[outcome |-> loc.outcome, overflow |-> loc.overflow, offset |-> 0,
                     touched |-> {}, ub |-> FALSE, val |-> Default]}
              ELSE {[outcome |-> "ok", overflow |-> loc.overflow, offset |-> loc.offset,
                     touched |-> {loc.offset}, ub |-> r.ub, val |-> r.val] :
                        r \in PtrRead(h, FatPtr(fat), loc.offset)} :
           loc \in MatLocate(fat, i, j, e)}

\* IndexMut for Mat and the store through the reference it returns: the
\* outcomes of `mat[[i, j]] = v`.
MatIndexMut(h, fat, i, j, v, e) ==
    UNION {IF loc.outcome # "ok"
              THEN {[outcome |-> loc.outcome, overflow |-> loc.overflow, offset |-> 0,
                     touched |-> {}, ub |-> FALSE, heap |-> h]}
              ELSE {[outcome |-> "ok", overflow |-> loc.overflow, offset |-> loc.offset,
                     touched |-> {loc.offset}, ub |-> w.ub, heap |-> w.heap] :
                        w \in PtrWrite(h, FatMutPtr(fat), loc.offset, v)} :
           loc \in MatLocate(fat, i, j, e)}

\* The number of elements ToOwned for Mat copies: `rows * cols` on Halfsizes.
BadOwnedLen(p) == {[unreachable |-> FALSE, val |-> p[1]]}

OwnedLen(p) == HalfsizeMul(p[1], p[2])

\* ToOwned for Mat: the outcomes of `mat.to_owned()`, the new Vec<T> not yet
\* placed in memory.
MatToOwned(h, fat, e) ==
    LET p == FatMeta(fat, e)
        outs == UNION {{<<n, c>> : c \in CopyFromRaw(h, FatPtr(fat), n.val)} : n \in OwnedLen(p)}
    IN  {[elems |-> o[2].elems, rows |-> p[1], cols |-> p[2],
          ub |-> o[2].ub \/ o[1].unreachable] : o \in outs}

\* Matrix::new up to placing the Vec<T> in memory.  `allocated` is the number
\* of elements collected into `items` before the call returned or panicked.
\* The element count `rows * cols` is computed and the elements are collected
\* first (line 80); the two try_into().expect() follow (lines 85-86).
\* An overflowing `rows * cols` panics in a build with overflow-checks and
\* wraps in one without.  Allocation is taken to succeed.
MatrixNew(rows, cols) ==
    LET n == UsizeMul(rows, cols)
        r == HalfsizeTryFrom(rows)
        c == HalfsizeTryFrom(cols)
        built == IF ~r.ok \/ ~c.ok
                    THEN [outcome |-> "range_error", allocated |-> n.val, rows |-> 0, cols |-> 0]
                    ELSE [outcome |-> "ok", allocated |-> n.val, rows |-> r.val, cols |-> c.val]
    IN  IF n.overflow
            THEN {[outcome |-> "overflow_panic", allocated |-> 0, rows |-> 0, cols |-> 0], built}
            ELSE {built}

----------------------------------------------------------------------------
(* The program: a matrix is constructed, borrowed as a Mat, read and       *)
(* written through the borrow, and copied into a second matrix             *)

\* Largest dimension of the small matrices constructed, largest number of
\* distinct elements stored into.
MaxDim == 2
MaxWrites == 2

\* Arguments of Matrix::new: small dimensions, the smallest usize that is no
\* Halfsize and the largest usize; and long thin matrices of HalfMax elements.
DimInputs == {0, 1, MaxDim, HalfMax + 1, UsizeMax}
NewInputs == (DimInputs \X DimInputs) \cup {<<HalfMax, 1>>, <<1, HalfMax>>, <<HalfMax, HalfMax + 1>>}

\* Indices passed to index and index_mut: the first two rows and columns, the
\* last element of the long thin matrices, and indices past the end.
IdxInputs ==
    ({0, 1} \X {0, 1}) \cup
    {<<HalfMax - 1, 0>>, <<0, HalfMax - 1>>, <<MaxDim, 0>>, <<0, MaxDim>>, <<UsizeMax, UsizeMax>>}

NoResult == [op |-> "none"]

\* No matrix constructed, nothing allocated, nothing borrowed.
Idle ==
    /\ heap = [a \in Addrs |-> None]
    /\ matrix = None
    /\ matrix2 = None
    /\ mat = None
    /\ requested = None
    /\ assigned = <<>>

Init ==
    /\ endian \in Endians
    /\ arg = <<0, 0>>
    /\ result = NoResult
    /\ Idle

\* let mut matrix = Matrix::new(rows, cols);
New(rows, cols) ==
    /\ matrix = None
    /\ \E r \in MatrixNew(rows, cols) :
       LET a == Alloc(heap)
       IN  /\ result' = [op |-> "new", rows |-> rows, cols |-> cols,
                         outcome |-> r.outcome, allocated |-> r.allocated]
           /\ IF r.outcome = "ok"
                 THEN /\ heap' = [heap EXCEPT ![a] = Some([k \in 1 .. r.allocated |-> Default])]
                      /\ matrix' = Some([items |-> [ptr |-> a, len |-> r.allocated],
                                         rows |-> r.rows, cols |-> r.cols])
                      /\ requested' = Some(<<rows, cols>>)
                 ELSE UNCHANGED <<heap, matrix, requested>>
    /\ UNCHANGED <<endian, matrix2, mat, assigned, arg>>

\* matrix.rows(), matrix2.rows()
MatrixRowsCall ==
    /\ \E which \in {"matrix", "matrix2"} :
          LET m == IF which = "matrix" THEN matrix ELSE matrix2
          IN  /\ m # None
              /\ result' = [op |-> "matrix_rows", of |-> which, val |-> MatrixRows(Unwrap(m))]
    /\ UNCHANGED <<endian, heap, matrix, matrix2, mat, requested, assigned, arg>>

\* matrix.cols(), matrix2.cols()
MatrixColsCall ==
    /\ \E which \in {"matrix", "matrix2"} :
          LET m == IF which = "matrix" THEN matrix ELSE matrix2
          IN  /\ m # None
              /\ result' = [op |-> "matrix_cols", of |-> which, val |-> MatrixCols(Unwrap(m))]
    /\ UNCHANGED <<endian, heap, matrix, matrix2, mat, requested, assigned, arg>>

\* let mat = &*matrix;  let mat = &*matrix2;
Deref ==
    /\ mat = None
    /\ \E m \in {matrix, matrix2} :
          /\ m # None
          /\ mat' = Some([fat |-> MatrixDeref(Unwrap(m), endian), mutable |-> FALSE])
    /\ result' = [op |-> "deref"]
    /\ UNCHANGED <<endian, heap, matrix, matrix2, requested, assigned, arg>>

\* let mat = &mut *matrix;  (matrix2 is not a `mut` binding)
DerefMut ==
    /\ mat = None
    /\ matrix # None
    /\ mat' = Some([fat |-> MatrixDerefMut(Unwrap(matrix), endian), mutable |-> TRUE])
    /\ result' = [op |-> "deref_mut"]
    /\ UNCHANGED <<endian, heap, matrix, matrix2, requested, assigned, arg>>

\* The borrow goes out of scope, and with it what was obtained through it.
EndBorrow ==
    /\ mat # None
    /\ mat' = None
    /\ result' = NoResult
    /\ UNCHANGED <<endian, heap, matrix, matrix2, requested, assigned, arg>>

\* mat.rows()
MatRowsCall ==
    /\ mat # None
    /\ result' = [op |-> "mat_rows", ptr |-> FatPtr(Unwrap(mat).fat),
                  val |-> MatRows(Unwrap(mat).fat, endian)]
    /\ UNCHANGED <<endian, heap, matrix, matrix2, mat, requested, assigned, arg>>

\* mat.cols()
MatColsCall ==
    /\ mat # None
    /\ result' = [op |-> "mat_cols", ptr |-> FatPtr(Unwrap(mat).fat),
                  val |-> MatCols(Unwrap(mat).fat, endian)]
    /\ UNCHANGED <<endian, heap, matrix, matrix2, mat, requested, assigned, arg>>

\* mat[[i, j]]
Index(i, j) ==
    /\ mat # None
    /\ \E r \in MatIndex(heap, Unwrap(mat).fat, i, j, endian) :
          result' = [op |-> "index", ptr |-> FatPtr(Unwrap(mat).fat), i |-> i, j |-> j,
                     outcome |-> r.outcome, overflow |-> r.overflow, offset |-> r.offset,
                     touched |-> r.touched, ub |-> r.ub, val |-> r.val]
    /\ UNCHANGED <<endian, heap, matrix, matrix2, mat, requested, assigned, arg>>

\* mat[[i, j]] = v
\* The runs explored store into at most MaxWrites distinct elements, and, as
\* main() does, fill `matrix` before they copy it.
IndexMut(i, j, v) ==
    /\ mat # None
    /\ Unwrap(mat).mutable
    /\ Cardinality(DOMAIN assigned) < MaxWrites \/ <<i, j>> \in DOMAIN assigned
    /\ matrix2 = None
    /\ \E w \in MatIndexMut(heap, Unwrap(mat).fat, i, j, v, endian) :
          /\ result' = [op |-> "index_mut", ptr |-> FatPtr(Unwrap(mat).fat), i |-> i, j |-> j,
                        outcome |-> w.outcome, overflow |-> w.overflow, offset |-> w.offset,
                        touched |-> w.touched, ub |-> w.ub, val |-> v]
          /\ heap' = w.heap
          /\ assigned' = IF w.outcome = "ok"
                            THEN [p \in DOMAIN assigned \cup {<<i, j>>} |->
                                     IF p = <<i, j>> THEN v ELSE assigned[p]]
                            ELSE assigned
    /\ UNCHANGED <<endian, matrix, matrix2, mat, requested, arg>>

\* let matrix2 = mat.to_owned();
ToOwned ==
    /\ mat # None
    /\ matrix2 = None
    /\ \E o \in MatToOwned(heap, Unwrap(mat).fat, endian) :
          LET a == Alloc(heap)
          IN  /\ heap' = [heap EXCEPT ![a] = Some(o.elems)]
              /\ matrix2' = Some([items |-> [ptr |-> a, len |-> Len(o.elems)],
                                  rows |-> o.rows, cols |-> o.cols])
              /\ result' = [op |-> "to_owned", ptr |-> FatPtr(Unwrap(mat).fat),
                            copied |-> Len(o.elems), ub |-> o.ub]
    /\ UNCHANGED <<endian, matrix, mat, requested, assigned, arg>>

\* matrix2 goes out of scope: its Vec<T> is freed.
DropMatrix2 ==
    /\ matrix2 # None
    /\ IF mat = None THEN TRUE ELSE FatPtr(Unwrap(mat).fat) # Unwrap(matrix2).items.ptr
    /\ heap' = [heap EXCEPT ![Unwrap(matrix2).items.ptr] = None]
    /\ matrix2' = None
    /\ result' = NoResult
    /\ UNCHANGED <<endian, matrix, mat, requested, assigned, arg>>

Next ==
    \/ \E d \in NewInputs : New(d[1], d[2])
    \/ MatrixRowsCall
    \/ MatrixColsCall
    \/ Deref
    \/ DerefMut
    \/ EndBorrow
    \/ MatRowsCall
    \/ MatColsCall
    \/ \E p \in IdxInputs : Index(p[1], p[2])
    \/ \E p \in IdxInputs : \E v \in Stored : IndexMut(p[1], p[2], v)
    \/ ToOwned
    \/ DropMatrix2

Spec == Init /\ [][Next]_vars

----------------------------------------------------------------------------
(* Calls of the arithmetic and encoding functions on every pair of Halfsizes *)

InitPure ==
    /\ endian \in Endians
    /\ arg \in Halfsize \X Halfsize
    /\ result = NoResult
    /\ Idle

\* arg[1] * arg[2] through impl Mul for Halfsize.
MulCall ==
    /\ result = NoResult
    /\ \E out \in HalfsizeMul(arg[1], arg[2]) :
          result' = [op |-> "mul", unreachable |-> out.unreachable, val |-> out.val]
    /\ UNCHANGED <<endian, heap, matrix, matrix2, mat, requested, assigned, arg>>

\* Pair(arg[1], arg[2]).into_bytes(), then Pair::from_bytes of that word.
RoundTripCall ==
    /\ result = NoResult
    /\ LET word == PairIntoBytes(arg, endian)
       IN  result' = [op |-> "round_trip", word |-> word,
                      back |-> PairFromBytes(word, endian)]
    /\ UNCHANGED <<endian, heap, matrix, matrix2, mat, requested, assigned, arg>>

\* Buffers handed to Fat::from_slice: their address and their own length.
SliceInputs == [ptr : Addrs, len : {0, UsizeMax}]

\* Fat::from_slice(data, Pair(arg[1], arg[2])), then ptr() and meta() on it.
FromSliceCall(data) ==
    /\ result = NoResult
    /\ LET fat == FatFromSlice(data, arg, endian)
       IN  result' = [op |-> "from_slice", data |-> data, fat |-> fat,
                      ptr |-> FatPtr(fat), meta |-> FatMeta(fat, endian)]
    /\ UNCHANGED <<endian, heap, matrix, matrix2, mat, requested, assigned, arg>>

\* Fat::from_slice_mut(data, Pair(arg[1], arg[2])), then mut_ptr() and meta().
FromSliceMutCall(data) ==
    /\ result = NoResult
    /\ LET fat == FatFromSliceMut(data, arg, endian)
       IN  result' = [op |-> "from_slice_mut", data |-> data, fat |-> fat,
                      ptr |-> FatMutPtr(fat), meta |-> FatMeta(fat, endian)]
    /\ UNCHANGED <<endian, heap, matrix, matrix2, mat, requested, assigned, arg>>

\* The indices tried on a Mat of arg[1] rows and arg[2] columns: its last
\* element, and the first index past it in either direction.
LocateInputs ==
    {p \in {<<arg[1] - 1, arg[2] - 1>>, <<arg[1], arg[2] - 1>>, <<arg[1] - 1, arg[2]>>} :
        p[1] >= 0 /\ p[2] >= 0}

\* The assertions and the offset of index / index_mut at [i, j], on the Mat
\* whose metadata is Pair(arg[1], arg[2]).
LocateCall(i, j) ==
    /\ result = NoResult
    /\ \E a \in Addrs : \E loc \in MatLocate(FatFromSlice([ptr |-> a, len |-> 0], arg, endian), i, j, endian) :
          result' = [op |-> "locate", i |-> i, j |-> j, outcome |-> loc.outcome,
                     overflow |-> loc.overflow, offset |-> loc.offset]
    /\ UNCHANGED <<endian, heap, matrix, matrix2, mat, requested, assigned, arg>>

NextPure ==
    \/ MulCall
    \/ RoundTripCall
    \/ \E data \in SliceInputs : FromSliceCall(data)
    \/ \E data \in SliceInputs : FromSliceMutCall(data)
    \/ \E p \in LocateInputs : LocateCall(p[1], p[2])

SpecPure == InitPure /\ [][NextPure]_vars

----------------------------------------------------------------------------
(* Properties *)

\* The Mat of the live borrow, its decoded dimensions, and the element values
\* index returns at [i, j] of a Mat.
BorrowedFat == Unwrap(mat).fat
BorrowedRows == MatRows(BorrowedFat, endian)
BorrowedCols == MatCols(BorrowedFat, endian)
ValuesAt(h, fat, i, j) == {r.val : r \in MatIndex(h, fat, i, j, endian)}

\* The value last assigned to [i, j] of `matrix`, or the default.
Expected(i, j) == IF <<i, j>> \in DOMAIN assigned THEN assigned[<<i, j>>] ELSE Default

\* C1: a call Matrix::new(rows, cols) with rows or cols above the half-word
\* maximum fails with a range error, and no element buffer has been allocated
\* before the failure.
C1_RangeErrorBeforeAllocation ==
    (result.op = "new" /\ (result.rows > HalfMax \/ result.cols > HalfMax))
        => (result.outcome = "range_error" /\ result.allocated = 0)

\* A call of index or index_mut outside the Mat's dimensions panics on an
\* assertion and dereferences nothing.
C2_Fails ==
    (result.op \in {"index", "index_mut"}
       /\ (result.i >= BorrowedRows \/ result.j >= BorrowedCols))
        => (result.outcome = "bounds_error" /\ result.touched = {} /\ ~result.ub)

\* A step that is such a call changes no buffer, no matrix and not the borrow.
C2_NoEffect ==
    (result'.op \in {"index", "index_mut"}
       /\ (result'.i >= BorrowedRows \/ result'.j >= BorrowedCols))
        => (heap' = heap /\ matrix' = matrix /\ matrix2' = matrix2 /\ mat' = mat)

\* C2: index and index_mut at [i, j] with i >= rows or j >= cols fail with a
\* bounds error, touch no element slot, and leave every element and both
\* dimensions unchanged.
C2_OutOfBoundsHasNoEffect == []C2_Fails /\ [][C2_NoEffect]_vars

C2_Witness ==
    /\ result.op = "index_mut"
    /\ result.outcome = "bounds_error"
    /\ assigned # <<>>

\* C3: for all half-word values a and b the widened product is at most
\* usize::MAX: Mul for Halfsize takes the Some branch, never the unreachable one.
C3_MulNeverOverflows ==
    result.op = "mul"
        => (/\ ~result.unreachable
            /\ result.val = arg[1] * arg[2]
            /\ result.val <= UsizeMax)

C3_Witness ==
    /\ result.op = "mul"
    /\ arg = <<HalfMax, HalfMax>>
    /\ result.val = HalfMax * HalfMax

\* Half-word values at the ends of the range.
EdgeHalf == {0, 1, HalfMax - 1, HalfMax}

\* C4: decoding the word that encodes a pair of half-words gives the pair back,
\* and distinct pairs encode to distinct words.
C4_PairRoundTrip ==
    result.op = "round_trip"
        => (/\ result.back = arg
            /\ result.word \in Usize
            /\ \A q \in (EdgeHalf \X EdgeHalf) \cup {<<arg[2], arg[1]>>} :
                  q # arg => PairIntoBytes(q, endian) # result.word)

C4_Witness ==
    /\ result.op = "round_trip"
    /\ arg = <<1, 2>>
    /\ endian = "big"
    /\ result.word = HalfMod + 2
    /\ result.back = <<1, 2>>

\* C5: the handle built by from_slice / from_slice_mut gives back the buffer's
\* address from ptr() / mut_ptr(), stores exactly the word m.into_bytes(), and
\* meta() is the decoding of that word, whatever the buffer's own length.
C5_FatKeepsPtrAndMeta ==
    result.op \in {"from_slice", "from_slice_mut"}
        => (/\ result.ptr = result.data.ptr
            /\ result.fat.len = PairIntoBytes(arg, endian)
            /\ result.meta = PairFromBytes(PairIntoBytes(arg, endian), endian))

C5_Witness ==
    /\ result.op = "from_slice_mut"
    /\ result.data.len = 0
    /\ arg = <<HalfMax, 1>>
    /\ result.meta = <<HalfMax, 1>>

\* C6: Matrix::new(rows, cols) with rows and cols in the half-word range
\* succeeds, the matrix reports rows() = rows and cols() = cols, and so does
\* the Mat borrowed from it, immutably or mutably.
C6_DimensionsReported ==
    /\ (result.op = "new" /\ result.rows <= HalfMax /\ result.cols <= HalfMax)
          => result.outcome = "ok"
    /\ (result.op = "matrix_rows" /\ result.of = "matrix")
          => result.val = Unwrap(requested)[1]
    /\ (result.op = "matrix_cols" /\ result.of = "matrix")
          => result.val = Unwrap(requested)[2]
    /\ (result.op = "mat_rows" /\ result.ptr = Unwrap(matrix).items.ptr)
          => result.val = Unwrap(requested)[1]
    /\ (result.op = "mat_cols" /\ result.ptr = Unwrap(matrix).items.ptr)
          => result.val = Unwrap(requested)[2]

C6_Witness ==
    /\ result.op = "mat_cols"
    /\ result.ptr = Unwrap(matrix).items.ptr
    /\ Unwrap(mat).mutable
    /\ requested = Some(<<1, HalfMax>>)
    /\ result.val = HalfMax

\* An in-bounds read of `matrix` returns the value last assigned there, or
\* the default.
C7_Reads ==
    (/\ result.op = "index"
     /\ result.ptr = Unwrap(matrix).items.ptr
     /\ result.i < BorrowedRows /\ result.j < BorrowedCols)
        => (result.outcome = "ok" /\ ~result.ub /\ result.val = Expected(result.i, result.j))

\* A step that is an in-bounds assignment stores the value at [i, j] and
\* changes no other element, no other buffer and no dimension.
C7_Frame ==
    (/\ result'.op = "index_mut"
     /\ result'.i < BorrowedRows /\ result'.j < BorrowedCols)
        => (/\ result'.outcome = "ok" /\ ~result'.ub
            /\ ValuesAt(heap', BorrowedFat, result'.i, result'.j) = {result'.val}
            /\ \A p \in IdxInputs :
                  (p[1] < BorrowedRows /\ p[2] < BorrowedCols /\ p # <<result'.i, result'.j>>)
                     => ValuesAt(heap', BorrowedFat, p[1], p[2])
                           = ValuesAt(heap, BorrowedFat, p[1], p[2])
            /\ \A a \in Addrs : a # BorrowedFat.ptr => heap'[a] = heap[a]
            /\ Len(Unwrap(heap'[BorrowedFat.ptr])) = Len(Unwrap(heap[BorrowedFat.ptr]))
            /\ \A n \in 1 .. Len(Unwrap(heap[BorrowedFat.ptr])) :
                  n # result'.offset + 1
                     => Unwrap(heap'[BorrowedFat.ptr])[n] = Unwrap(heap[BorrowedFat.ptr])[n]
            /\ MatrixRows(Unwrap(matrix')) = MatrixRows(Unwrap(matrix))
            /\ MatrixCols(Unwrap(matrix')) = MatrixCols(Unwrap(matrix))
            /\ MatDim(Unwrap(mat').fat, endian) = MatDim(BorrowedFat, endian))

\* C7: reading an in-bounds [i, j] of `matrix` through a borrow returns the
\* value last assigned to [i, j], or the default if none was; an assignment to
\* [i, j] changes no entry at another index and neither dimension.
C7_ReadsSeeLastWrite == []C7_Reads /\ [][C7_Frame]_vars

C7_Witness ==
    /\ result.op = "index"
    /\ result.outcome = "ok"
    /\ result.offset > 0
    /\ result.val = 4
    /\ Cardinality(DOMAIN assigned) = 2

\* C8: to_owned on a Mat returns a new Matrix with the same rows and cols whose
\* entry at every in-bounds index equals the Mat's; it copies exactly
\* rows * cols elements and leaves the source matrix unchanged.
C8_ToOwnedCopies ==
    [][(matrix2 = None /\ result'.op = "to_owned")
          => LET owned == Unwrap(matrix2')
                 copy == MatrixDeref(owned, endian)
             IN  /\ ~result'.ub
                 /\ MatrixRows(owned) = BorrowedRows
                 /\ MatrixCols(owned) = BorrowedCols
                 /\ result'.copied = BorrowedRows * BorrowedCols
                 /\ owned.items.ptr # BorrowedFat.ptr
                 /\ \A p \in IdxInputs :
                       (p[1] < BorrowedRows /\ p[2] < BorrowedCols)
                          => /\ Cardinality(ValuesAt(heap', copy, p[1], p[2])) = 1
                             /\ ValuesAt(heap', copy, p[1], p[2])
                                   = ValuesAt(heap, BorrowedFat, p[1], p[2])
                 /\ heap'[owned.items.ptr]
                       = Some(SubSeq(Unwrap(heap[BorrowedFat.ptr]), 1, BorrowedRows * BorrowedCols))
                 /\ matrix' = matrix
                 /\ heap'[BorrowedFat.ptr] = heap[BorrowedFat.ptr]]_vars

C8_Witness ==
    /\ result.op = "to_owned"
    /\ result.copied = MaxDim * MaxDim
    /\ matrix2 # None
    /\ Cardinality(DOMAIN assigned) = 2

\* C9: every Matrix has an element buffer whose length is rows * cols of its
\* stored dimensions, so every Mat derived from it points at exactly as many
\* elements as its decoded metadata requires.
C9_BufferLengthIsRowsTimesCols ==
    /\ \A m \in {matrix, matrix2} :
          m # None
             => (/\ heap[Unwrap(m).items.ptr] # None
                 /\ Len(Unwrap(heap[Unwrap(m).items.ptr])) = Unwrap(m).rows * Unwrap(m).cols
                 /\ Unwrap(m).items.len = Unwrap(m).rows * Unwrap(m).cols)
    /\ mat # None
          => (/\ heap[BorrowedFat.ptr] # None
              /\ Len(Unwrap(heap[BorrowedFat.ptr])) = BorrowedRows * BorrowedCols)

C9_Witness ==
    /\ matrix # None
    /\ Unwrap(matrix).rows = HalfMax
    /\ matrix2 # None
    /\ mat # None
    /\ assigned # <<>>

\* C10: for a Mat of (rows, cols) and an index with i < rows and j < cols, the
\* offset i * cols + j does not overflow a usize and is below rows * cols.
C10_OffsetInsideBuffer ==
    (result.op = "locate" /\ result.i < arg[1] /\ result.j < arg[2])
        => (/\ result.outcome = "ok"
            /\ ~result.overflow
            /\ result.offset = result.i * arg[2] + result.j
            /\ result.offset < arg[1] * arg[2]
            /\ arg[1] * arg[2] <= UsizeMax)

C10_Witness ==
    /\ result.op = "locate"
    /\ arg = <<HalfMax, HalfMax>>
    /\ result.i = HalfMax - 1
    /\ result.j = HalfMax - 1
    /\ result.offset = HalfMax * HalfMax - 1

====
